---- MODULE Spec2Model ----
(***************************************************************************)
(* A model of the peer-to-peer encrypted chat: the gossip receive loop     *)
(* (gossip.rs, subscribe_loop), the UI state (app.rs, App) and the UI      *)
(* event loop (tui.rs, run_tui), joined by the three mpsc channels.        *)
(***************************************************************************)
EXTENDS Integers, Sequences, FiniteSets, TLC

\* ---------------------------------------------------------------- bounds

\* Stream items the receive loop pulls in one run of SpecTracker.
MaxRecv == 3
\* Stream items the receive loop pulls in one run of Spec.
MaxCoreRecv == 2
\* Key events the UI loop handles in one run of Spec.
MaxKeys == 6
\* Capacity of each mpsc channel (set where the channels are created).
ChanCap == 2
\* Longest input buffer typed in the model.
MaxInput == 1
\* Stream items the scripted stream of SpecFill delivers after its head.
FillLen == 1103
\* Longest History and largest scroll distance of SpecScroll.
MaxScrollLen == 5
MaxScrollArg == 10
\* Longest text typed on stdin or given to encrypt_message.
MaxTextLen == 2
\* Encrypted messages delivered to the receive loop in SpecCrypto.
MaxCryptoRecv == 1
\* Most bootstrap endpoints in a Ticket.
MaxTicketPeers == 2

\* ------------------------------------------------------ program constants

\* app.rs: `if self.messages.len() > 1000`
MAX_MESSAGES == 1000
\* app.rs: `self.messages.drain(0..100)`
TRIM_BATCH == 100
\* tui.rs: KeyCode::Up / KeyCode::Down scroll by one line
SCROLL_LINE == 1
\* tui.rs: KeyCode::PageUp / KeyCode::PageDown scroll by ten lines
SCROLL_PAGE == 10

\* ------------------------------------------------------------ value sets

\* subscribe_loop's parameters: the local endpoint, its name and the topic.
my_id == "me"
my_name == "Me"
topic == "tA"

EndpointIds == {"me", "px", "py"}
DisplayNames == {"Me", "Al"}
TopicIds == {"tA", "tB"}
MessageIds == {1, 2}
Nonces == {"n1"}
Chars == {"a"}
\* A String is a sequence of characters; PlainTexts are the texts peers send.
PlainTexts == {<<"a">>}

\* Characters of the texts given to the crypto functions and typed on stdin:
\* one with a one-byte and one with a two-byte UTF-8 encoding.
Utf8Chars == {"a", "e_acute"}
Texts == UNION {[1..n -> Utf8Chars] : n \in 0..MaxTextLen}

\* A missing map entry (HashMap::get returning None).
None == "none"

\* ------------------------------------------------------------- HashMap

MapInsert(m, k, v) == [x \in (DOMAIN m) \cup {k} |-> IF x = k THEN v ELSE m[x]]
MapRemove(m, k) == [x \in (DOMAIN m) \ {k} |-> m[x]]
EmptyMap == [x \in {} |-> None]

\* ------------------------------------------------------------- crypto.rs

\* get_encryption_key that hashes a fixed string instead of the topic
get_encryption_key_fixed(t) == <<"sha256", "chat">>

\* SHA-256 of the topic's bytes, kept symbolic: distinct topics, distinct keys.
get_encryption_key(t) == <<"sha256", t>>

\* ChaCha20-Poly1305, kept symbolic: a ciphertext remembers the key and the
\* nonce it was sealed under, and opens only under both.
Seal(key, nonce, bytes) == [key |-> key, nonce |-> nonce, bytes |-> bytes]

\* The Unicode scalar value of a character of the model.
CodePoint(c) == CASE c = "a" -> 97 [] c = "i" -> 105 [] c = "d" -> 100
                  [] c = "e_acute" -> 233

\* str::as_bytes of one character: its UTF-8 encoding (one or two bytes here)
utf8_encode(c) ==
    LET cp == CodePoint(c) IN
    IF cp < 128 THEN <<cp>> ELSE <<192 + (cp \div 64), 128 + (cp % 64)>>

\* str::as_bytes
RECURSIVE as_bytes(_)
as_bytes(text) ==
    IF text = <<>> THEN <<>> ELSE utf8_encode(Head(text)) \o as_bytes(Tail(text))

\* The character with scalar value cp, when the model has one.
CharOf(cp) ==
    IF \E c \in {"a", "i", "d", "e_acute"} : CodePoint(c) = cp
    THEN <<CHOOSE c \in {"a", "i", "d", "e_acute"} : CodePoint(c) = cp>>
    ELSE <<>>

\* String::from_utf8: the text the bytes encode, or an error on a byte that
\* starts no sequence, a missing or wrong continuation byte, or an overlong
\* form.
RECURSIVE from_utf8(_)
from_utf8(bytes) ==
    IF bytes = <<>> THEN [ok |-> TRUE, text |-> <<>>]
    ELSE LET b == bytes[1]
             one == b < 128
             two == /\ b >= 194 /\ b <= 223
                    /\ Len(bytes) >= 2
                    /\ bytes[2] >= 128 /\ bytes[2] <= 191
             cp == IF one THEN b ELSE (b - 192) * 64 + (bytes[2] - 128)
             rest == from_utf8(SubSeq(bytes, IF one THEN 2 ELSE 3, Len(bytes)))
         IN  IF (one \/ two) /\ CharOf(cp) # <<>> /\ rest.ok
             THEN [ok |-> TRUE, text |-> CharOf(cp) \o rest.text]
             ELSE [ok |-> FALSE, text |-> <<"invalid utf-8 sequence">>]

\* crypto.rs 57-75: the body of the Message encrypt_message returns, with the
\* nonce generate_nonce drew
encrypt_message_body(text, from, t, id, nonce) ==
    [type |-> "EncryptedMessage", from |-> from, id |-> id,
     ciphertext |-> Seal(get_encryption_key(t), nonce, as_bytes(text)),
     nonce |-> nonce]

\* decrypt_message that opens with a fixed nonce instead of the one given
decrypt_message_fixed_nonce(ciphertext, nonce, t) ==
    LET key == get_encryption_key(t) IN
    IF ciphertext.key = key /\ ciphertext.nonce = "n0"
    THEN from_utf8(ciphertext.bytes)
    ELSE [ok |-> FALSE, text |-> <<"Decryption failed: ", "aead::Error">>]

\* crypto.rs 97-107
decrypt_message(ciphertext, nonce, t) ==
    LET key == get_encryption_key(t) IN
    IF ciphertext.key = key /\ ciphertext.nonce = nonce
    THEN from_utf8(ciphertext.bytes)
    ELSE [ok |-> FALSE, text |-> <<"Decryption failed: ", "aead::Error">>]

\* ---------------------------------------------------------------- app.rs

ChatMessage(id, sender, content) ==
    [kind |-> "Chat", id |-> id, sender |-> sender, content |-> content,
     encrypted |-> TRUE]
SystemMsg(text) == [kind |-> "System", text |-> text]
DeleteMsg(id) == [kind |-> "Delete", id |-> id]

\* Vec::drain(0..n): what is left of s
Drain(s, n) == SubSeq(s, n + 1, Len(s))


\* ------------------------------------------------------------- variables

VARIABLES
    \* subscribe_loop's locals
    names,            \* HashMap<EndpointId, String>
    message_owners,   \* HashMap<u64, EndpointId>
    loop_state,       \* "running", or how subscribe_loop returned: "ok" | "err"
    \* App's fields
    input,            \* String
    messages,         \* Vec<UiMessage>
    mode,             \* Mode
    my_sent_ids,      \* Vec<u64>
    scroll_offset,    \* usize
    \* run_tui's position and the value its pending send carries
    ui_pc,            \* "drain" | "poll" | "send_input" | "send_delete" | "quit"
    ui_pending,
    \* the channels
    ui_chan,          \* ui_tx -> ui_rx : UiMessage
    input_chan,       \* input_tx -> input_rx : (String, u64)
    delete_chan,      \* delete_tx -> delete_rx : u64
    \* what the outbound flow has broadcast
    published,
    \* the substrate's stream: how much of it was pulled, and the script it follows
    n_recv,
    script,
    \* terminal events handled
    n_keys,
    \* observation: the step just taken, and the first sender seen per message id
    last,
    first_seen

tracker_vars == <<names, message_owners, loop_state>>
app_vars == <<input, messages, mode, my_sent_ids, scroll_offset>>
ui_vars == <<app_vars, ui_pc, ui_pending>>
chan_vars == <<ui_chan, input_chan, delete_chan>>
vars == <<tracker_vars, ui_vars, chan_vars, published, n_recv, script, n_keys,
          last, first_seen>>

\* ------------------------------------------------------------- protocol.rs

AboutMe(from, name) == [type |-> "AboutMe", from |-> from, name |-> name]
DeleteMessage(from, id) == [type |-> "DeleteMessage", from |-> from, id |-> id]

\* Bytes that are no UTF-8 text: a lead byte without its continuation byte.
NotUtf8 == <<195>>

\* Every message body a peer of the topic, or of another topic, can broadcast.
MessageBodies ==
    {AboutMe(f, n) : f \in EndpointIds, n \in DisplayNames}
    \cup {encrypt_message_body(x, f, t, i, n) :
            x \in PlainTexts, f \in EndpointIds, t \in TopicIds,
            i \in MessageIds, n \in Nonces}
    \cup {[type |-> "EncryptedMessage", from |-> "px", id |-> i,
           ciphertext |-> Seal(get_encryption_key(topic), n, NotUtf8),
           nonce |-> n] : i \in MessageIds, n \in Nonces}
    \cup {DeleteMessage(f, i) : f \in EndpointIds, i \in MessageIds}

\* What receiver.try_next() yields: a gossip event, the end of the stream or an
\* error. A Received event carries bytes that decode to a Message or do not.
Received(body) == [ev |-> "Received", decodes |-> TRUE, body |-> body]
Malformed == [ev |-> "Received", decodes |-> FALSE]
OtherEvent == [ev |-> "NeighborUp"]
StreamEnd == [ev |-> "End"]
StreamError == [ev |-> "Error"]

StreamItems ==
    {Received(b) : b \in MessageBodies}
    \cup {Malformed, OtherEvent, StreamEnd, StreamError}

\* --------------------------------------------------------------- gossip.rs

\* EndpointId::fmt_short
fmt_short(id) == <<"short", id>>

\* `let _ = ui_tx.send(m).await`: m is queued when the receiver lives, and lost
\* when run_tui has returned and dropped it.
ui_tx_send(chan, emitted) == IF ui_pc = "quit" THEN chan ELSE chan \o emitted

\* authorised with the owner's identity not compared
authorised_any_owner(from, id) == id \in DOMAIN message_owners

\* authorised with a missing entry taken as consent (unwrap_or(true))
authorised_unknown_ok(from, id) ==
    IF id \in DOMAIN message_owners THEN message_owners[id] = from ELSE TRUE

\* gossip.rs 90-93
authorised(from, id) ==
    IF id \in DOMAIN message_owners THEN message_owners[id] = from ELSE FALSE

\* on_AboutMe that keeps a name already there (entry().or_insert)
on_AboutMe_keep_first(from, name) ==
    [names |-> IF from \in DOMAIN names THEN names
               ELSE MapInsert(names, from, name),
     message_owners |-> message_owners,
     emitted |-> IF from # my_id
                 THEN <<SystemMsg(<<name, " joined the chat">>)>>
                 ELSE <<>>]

\* on_AboutMe that takes the announcement as a fresh join and forgets the ids
\* the peer owned
on_AboutMe_forget_owned(from, name) ==
    [names |-> MapInsert(names, from, name),
     message_owners |-> [i \in {x \in DOMAIN message_owners : message_owners[x] # from}
                            |-> message_owners[i]],
     emitted |-> IF from # my_id
                 THEN <<SystemMsg(<<name, " joined the chat">>)>>
                 ELSE <<>>]

\* gossip.rs 38-45: what the AboutMe arm leaves and sends
on_AboutMe(from, name) ==
    [names |-> MapInsert(names, from, name),
     message_owners |-> message_owners,
     emitted |-> IF from # my_id
                 THEN <<SystemMsg(<<name, " joined the chat">>)>>
                 ELSE <<>>]

\* record_owner that keeps an entry already there (first write wins)
record_owner_first(id, from) ==
    IF id \in DOMAIN message_owners THEN message_owners
    ELSE MapInsert(message_owners, id, from)

\* gossip.rs 54: message_owners.insert(id, from)
record_owner(id, from) == MapInsert(message_owners, id, from)

\* sender_name that never looks the name up
sender_name_short(from) == fmt_short(from)

\* gossip.rs 61-64
sender_name(from) == IF from \in DOMAIN names THEN names[from] ELSE fmt_short(from)

\* on_EncryptedMessage that skips the local endpoint's messages before it
\* records the owner
on_EncryptedMessage_skip_own(from, id, ciphertext, nonce) ==
    LET name == sender_name(from)
        res == decrypt_message(ciphertext, nonce, topic)
    IN  [names |-> names,
         message_owners |-> IF from = my_id THEN message_owners
                            ELSE record_owner(id, from),
         emitted |->
            IF from = my_id THEN <<>>
            ELSE IF res.ok THEN <<ChatMessage(id, name, res.text)>>
            ELSE <<SystemMsg(<<"Failed to decrypt message from ", name, ": ",
                               res.text>>)>>]

\* on_EncryptedMessage that sends nothing when the decryption fails
on_EncryptedMessage_drop_failed(from, id, ciphertext, nonce) ==
    LET name == sender_name(from)
        res == decrypt_message(ciphertext, nonce, topic)
    IN  [names |-> names,
         message_owners |-> record_owner(id, from),
         emitted |->
            IF from = my_id THEN <<>>
            ELSE IF res.ok THEN <<ChatMessage(id, name, res.text)>>
            ELSE <<>>]

\* on_EncryptedMessage that sends nothing for an id its sender already owns
on_EncryptedMessage_dedup(from, id, ciphertext, nonce) ==
    LET name == sender_name(from)
        res == decrypt_message(ciphertext, nonce, topic)
    IN  [names |-> names,
         message_owners |-> record_owner(id, from),
         emitted |->
            IF from = my_id \/ authorised(from, id) THEN <<>>
            ELSE IF res.ok THEN <<ChatMessage(id, name, res.text)>>
            ELSE <<SystemMsg(<<"Failed to decrypt message from ", name, ": ",
                               res.text>>)>>]

\* gossip.rs 47-86: what the EncryptedMessage arm leaves and sends
on_EncryptedMessage(from, id, ciphertext, nonce) ==
    LET name == sender_name(from)
        res == decrypt_message(ciphertext, nonce, topic)
    IN  [names |-> names,
         message_owners |-> record_owner(id, from),
         emitted |->
            IF from = my_id THEN <<>>
            ELSE IF res.ok THEN <<ChatMessage(id, name, res.text)>>
            ELSE <<SystemMsg(<<"Failed to decrypt message from ", name, ": ",
                               res.text>>)>>]

\* on_DeleteMessage that removes the entry before it checks the owner
on_DeleteMessage_drop_entry(from, id) ==
    [names |-> names,
     message_owners |-> MapRemove(message_owners, id),
     emitted |-> IF authorised(from, id) THEN <<DeleteMsg(id)>> ELSE <<>>]

\* on_DeleteMessage that sends the event and keeps the entry
on_DeleteMessage_keep_entry(from, id) ==
    [names |-> names,
     message_owners |-> message_owners,
     emitted |-> IF authorised(from, id) THEN <<DeleteMsg(id)>> ELSE <<>>]

\* gossip.rs 88-100: what the DeleteMessage arm leaves and sends
on_DeleteMessage(from, id) ==
    IF authorised(from, id)
    THEN [names |-> names,
          message_owners |-> MapRemove(message_owners, id),
          emitted |-> <<DeleteMsg(id)>>]
    ELSE [names |-> names, message_owners |-> message_owners, emitted |-> <<>>]

\* gossip.rs 37-101: the match on message.body
handle_body(b) ==
    CASE b.type = "AboutMe" -> on_AboutMe(b.from, b.name)
      [] b.type = "EncryptedMessage" ->
            on_EncryptedMessage(b.from, b.id, b.ciphertext, b.nonce)
      [] b.type = "DeleteMessage" -> on_DeleteMessage(b.from, b.id)

\* The first sender seen per message id (observation only).
see_first(b) ==
    IF b.type = "EncryptedMessage" /\ b.id \notin DOMAIN first_seen
    THEN MapInsert(first_seen, b.id, b.from)
    ELSE first_seen

\* subscribe_loop that skips bytes it cannot decode and goes on
subscribe_loop_skip_malformed(item) ==
    /\ loop_state = "running"
    /\ IF item.ev = "Received" /\ item.decodes
       THEN LET r == handle_body(item.body) IN
            /\ ui_pc # "quit" => Len(ui_chan) + Len(r.emitted) <= ChanCap
            /\ names' = r.names
            /\ message_owners' = r.message_owners
            /\ ui_chan' = ui_tx_send(ui_chan, r.emitted)
            /\ loop_state' = "running"
            /\ first_seen' = see_first(item.body)
            /\ last' = [op |-> "subscribe_loop", item |-> item, emitted |-> r.emitted]
       ELSE /\ loop_state' = CASE item.ev = "Received" -> "running"
                               [] item.ev = "Error" -> "err"
                               [] item.ev = "End" -> "ok"
                               [] OTHER -> "running"
            /\ UNCHANGED <<names, message_owners, ui_chan, first_seen>>
            /\ last' = [op |-> "subscribe_loop", item |-> item, emitted |-> <<>>]
    /\ n_recv' = n_recv + 1
    /\ UNCHANGED <<ui_vars, input_chan, delete_chan, published, script, n_keys>>

\* subscribe_loop that returns the error of a send on the closed event queue
\* (`ui_tx.send(..).await?`)
subscribe_loop_send_checked(item) ==
    /\ loop_state = "running"
    /\ IF item.ev = "Received" /\ item.decodes
       THEN LET r == handle_body(item.body) IN
            /\ ui_pc # "quit" => Len(ui_chan) + Len(r.emitted) <= ChanCap
            /\ names' = r.names
            /\ message_owners' = r.message_owners
            /\ ui_chan' = ui_tx_send(ui_chan, r.emitted)
            /\ loop_state' = IF ui_pc = "quit" /\ r.emitted # <<>>
                             THEN "err" ELSE "running"
            /\ first_seen' = see_first(item.body)
            /\ last' = [op |-> "subscribe_loop", item |-> item, emitted |-> r.emitted]
       ELSE /\ loop_state' = CASE item.ev = "Received" -> "err"
                               [] item.ev = "Error" -> "err"
                               [] item.ev = "End" -> "ok"
                               [] OTHER -> "running"
            /\ UNCHANGED <<names, message_owners, ui_chan, first_seen>>
            /\ last' = [op |-> "subscribe_loop", item |-> item, emitted |-> <<>>]
    /\ n_recv' = n_recv + 1
    /\ UNCHANGED <<ui_vars, input_chan, delete_chan, published, script, n_keys>>

\* One turn of `while let Some(event) = receiver.try_next().await?` with the
\* stream yielding `item`.
subscribe_loop(item) ==
    /\ loop_state = "running"
    /\ IF item.ev = "Received" /\ item.decodes
       THEN LET r == handle_body(item.body) IN
            \* ui_tx.send(..).await waits while the channel is full
            /\ ui_pc # "quit" => Len(ui_chan) + Len(r.emitted) <= ChanCap
            /\ names' = r.names
            /\ message_owners' = r.message_owners
            /\ ui_chan' = ui_tx_send(ui_chan, r.emitted)
            /\ loop_state' = "running"
            /\ first_seen' = see_first(item.body)
            /\ last' = [op |-> "subscribe_loop", item |-> item, emitted |-> r.emitted]
       ELSE /\ loop_state' = CASE item.ev = "Received" -> "err"
                               [] item.ev = "Error" -> "err"
                               [] item.ev = "End" -> "ok"
                               [] OTHER -> "running"
            /\ UNCHANGED <<names, message_owners, ui_chan, first_seen>>
            /\ last' = [op |-> "subscribe_loop", item |-> item, emitted |-> <<>>]
    /\ n_recv' = n_recv + 1
    /\ UNCHANGED <<ui_vars, input_chan, delete_chan, published, script, n_keys>>


\* ---------------------------------------------------------------- app.rs

Min(a, b) == IF a < b THEN a ELSE b
\* usize::saturating_sub
saturating_sub(a, b) == IF a > b THEN a - b ELSE 0

\* retain_messages that removes only the first Chat entry with the id
retain_messages_first(msgs, id) ==
    LET hit(k) == msgs[k].kind = "Chat" /\ msgs[k].id = id
        hits == {k \in 1..Len(msgs) : hit(k)}
    IN  IF hits = {} THEN msgs
        ELSE LET f == CHOOSE k \in hits : \A j \in hits : k <= j
             IN  SubSeq(msgs, 1, f - 1) \o SubSeq(msgs, f + 1, Len(msgs))

\* app.rs 158-161: self.messages.retain(|m| match m { Chat(c) => c.id != id, _ => true })
retain_messages(msgs, id) ==
    LET keep(m) == IF m.kind = "Chat" THEN m.id # id ELSE TRUE
    IN  SelectSeq(msgs, keep)

\* retain_sent_ids that leaves the queue as it is
retain_sent_ids_keep(sent, id) == sent

\* app.rs 162: self.my_sent_ids.retain(|&i| i != id)
retain_sent_ids(sent, id) ==
    LET keep(i) == i # id IN SelectSeq(sent, keep)

\* push_bounded that trims as soon as the limit is reached (>= for >)
push_bounded_at_limit(msgs, msg) ==
    LET pushed == Append(msgs, msg)
    IN  IF Len(pushed) >= MAX_MESSAGES THEN Drain(pushed, TRIM_BATCH) ELSE pushed

\* app.rs 168-171: push, then trim when the length is over the limit
push_bounded(msgs, msg) ==
    LET pushed == Append(msgs, msg)
    IN  IF Len(pushed) > MAX_MESSAGES THEN Drain(pushed, TRIM_BATCH) ELSE pushed

\* add_message that records the id of every Chat event as a sent id
add_message_track_all(msgs, sent, msg) ==
    IF msg.kind = "Delete"
    THEN [messages |-> Append(retain_messages(msgs, msg.id),
                              SystemMsg(<<"A message was deleted.">>)),
          my_sent_ids |-> retain_sent_ids(sent, msg.id)]
    ELSE [messages |-> push_bounded(msgs, msg),
          my_sent_ids |-> IF msg.kind = "Chat" THEN Append(sent, msg.id) ELSE sent]

\* app.rs 155-172: App::add_message on an App with these messages and sent ids
add_message(msgs, sent, msg) ==
    IF msg.kind = "Delete"
    THEN [messages |-> Append(retain_messages(msgs, msg.id),
                              SystemMsg(<<"A message was deleted.">>)),
          my_sent_ids |-> retain_sent_ids(sent, msg.id)]
    ELSE [messages |-> push_bounded(msgs, msg), my_sent_ids |-> sent]

\* scroll_up clamped to the length instead of the last index
scroll_up_to_len(offset, len, n) == Min(offset + n, len)

\* app.rs 187-189
scroll_up(offset, len, n) == Min(offset + n, saturating_sub(len, 1))

\* app.rs 205-207
scroll_down(offset, n) == saturating_sub(offset, n)

\* ---------------------------------------------------------------- tui.rs

Key(code) == [code |-> code, ctrl |-> FALSE]
CharKey(c) == [code |-> "Char", c |-> c, ctrl |-> FALSE]
CtrlKey(c) == [code |-> "Char", c |-> c, ctrl |-> TRUE]

\* The key events of the model: what the user types while composing, and the
\* commands the user gives in normal mode.
InsertKeys ==
    {Key("Esc"), Key("Backspace"), Key("Enter"), Key("Tab")}
    \cup {CharKey(c) : c \in Chars}
NormalKeys ==
    {CharKey("i"), Key("Up"), Key("Down"), Key("PageUp"), Key("PageDown"),
     CtrlKey("c"), CtrlKey("d"), Key("Tab")}

\* tui.rs 38-40: one turn of `while let Ok(msg) = ui_rx.try_recv()`
\* DrainRecv over a tracker shared with the UI: applying Chat(id) or Delete(id)
\* also drops the id's owner
DrainRecv_shared_owners ==
    /\ ui_pc = "drain"
    /\ ui_chan # <<>>
    /\ LET app == add_message(messages, my_sent_ids, Head(ui_chan)) IN
       /\ messages' = app.messages
       /\ my_sent_ids' = app.my_sent_ids
    /\ message_owners' = IF Head(ui_chan).kind \in {"Chat", "Delete"}
                         THEN MapRemove(message_owners, Head(ui_chan).id)
                         ELSE message_owners
    /\ ui_chan' = Tail(ui_chan)
    /\ last' = [op |-> "add_message", msg |-> Head(ui_chan), from |-> "ui_rx"]
    /\ UNCHANGED <<names, loop_state, input, mode, scroll_offset, ui_pc, ui_pending,
                   input_chan, delete_chan, published, n_recv, script, n_keys,
                   first_seen>>

\* DrainRecv that takes the newest queued event instead of the oldest
DrainRecv_newest_first ==
    /\ ui_pc = "drain"
    /\ ui_chan # <<>>
    /\ LET ev == ui_chan[Len(ui_chan)]
           app == add_message(messages, my_sent_ids, ev) IN
       /\ messages' = app.messages
       /\ my_sent_ids' = app.my_sent_ids
       /\ last' = [op |-> "add_message", msg |-> ev, from |-> "ui_rx"]
    /\ ui_chan' = SubSeq(ui_chan, 1, Len(ui_chan) - 1)
    /\ UNCHANGED <<tracker_vars, input, mode, scroll_offset, ui_pc, ui_pending,
                   input_chan, delete_chan, published, n_recv, script, n_keys,
                   first_seen>>

DrainRecv ==
    /\ ui_pc = "drain"
    /\ ui_chan # <<>>
    /\ LET app == add_message(messages, my_sent_ids, Head(ui_chan)) IN
       /\ messages' = app.messages
       /\ my_sent_ids' = app.my_sent_ids
    /\ ui_chan' = Tail(ui_chan)
    /\ last' = [op |-> "add_message", msg |-> Head(ui_chan), from |-> "ui_rx"]
    /\ UNCHANGED <<tracker_vars, input, mode, scroll_offset, ui_pc, ui_pending,
                   input_chan, delete_chan, published, n_recv, script, n_keys,
                   first_seen>>

\* tui.rs 38, 43-180: try_recv finds the channel empty; the frame is drawn
DrainEmpty ==
    /\ ui_pc = "drain"
    /\ ui_chan = <<>>
    /\ ui_pc' = "poll"
    /\ last' = [op |-> "idle"]
    /\ UNCHANGED <<tracker_vars, app_vars, ui_pending, chan_vars, published,
                   n_recv, script, n_keys, first_seen>>

\* tui.rs 183-184: the poll times out, or reads an event that is no key
PollIdle ==
    /\ ui_pc = "poll"
    /\ ui_pc' = "drain"
    /\ last' = [op |-> "idle"]
    /\ UNCHANGED <<tracker_vars, app_vars, ui_pending, chan_vars, published,
                   n_recv, script, n_keys, first_seen>>

\* on_Enter without the `!app.input.is_empty()` check
on_Enter_any_input ==
    \E id \in MessageIds :
        LET app == add_message(messages, my_sent_ids,
                               ChatMessage(id, <<"You">>, input)) IN
        /\ messages' = app.messages
        /\ my_sent_ids' = Append(app.my_sent_ids, id)
        /\ ui_pending' = <<input, id>>
        /\ ui_pc' = "send_input"
        /\ UNCHANGED <<input, mode, scroll_offset>>

\* tui.rs 197-215: Enter in insert mode, up to the send
on_Enter ==
    IF input # <<>>
    THEN \E id \in MessageIds :
            LET app == add_message(messages, my_sent_ids,
                                   ChatMessage(id, <<"You">>, input)) IN
            /\ messages' = app.messages
            /\ my_sent_ids' = Append(app.my_sent_ids, id)
            /\ ui_pending' = <<input, id>>
            /\ ui_pc' = "send_input"
            /\ UNCHANGED <<input, mode, scroll_offset>>
    ELSE /\ ui_pc' = "drain"
         /\ UNCHANGED <<app_vars, ui_pending>>

\* on_CtrlD that takes the oldest sent id (first() for last())
on_CtrlD_oldest ==
    IF my_sent_ids # <<>>
    THEN LET id == my_sent_ids[1]
             app == add_message(messages, my_sent_ids, DeleteMsg(id)) IN
         /\ messages' = app.messages
         /\ my_sent_ids' = app.my_sent_ids
         /\ ui_pending' = id
         /\ ui_pc' = "send_delete"
         /\ UNCHANGED <<input, mode, scroll_offset>>
    ELSE LET app == add_message(messages, my_sent_ids,
                                SystemMsg(<<"No messages to delete.">>)) IN
         /\ messages' = app.messages
         /\ my_sent_ids' = app.my_sent_ids
         /\ ui_pc' = "drain"
         /\ UNCHANGED <<input, mode, scroll_offset, ui_pending>>

\* tui.rs 240-253: Ctrl+D in normal mode, up to the send
on_CtrlD ==
    IF my_sent_ids # <<>>
    THEN LET id == my_sent_ids[Len(my_sent_ids)]
             app == add_message(messages, my_sent_ids, DeleteMsg(id)) IN
         /\ messages' = app.messages
         /\ my_sent_ids' = app.my_sent_ids
         /\ ui_pending' = id
         /\ ui_pc' = "send_delete"
         /\ UNCHANGED <<input, mode, scroll_offset>>
    ELSE LET app == add_message(messages, my_sent_ids,
                                SystemMsg(<<"No messages to delete.">>)) IN
         /\ messages' = app.messages
         /\ my_sent_ids' = app.my_sent_ids
         /\ ui_pc' = "drain"
         /\ UNCHANGED <<input, mode, scroll_offset, ui_pending>>

\* tui.rs 187-217: `match key.code` in insert mode
insert_mode_key(k) ==
    CASE k.code = "Esc" ->
            /\ mode' = "Normal"
            /\ ui_pc' = "drain"
            /\ UNCHANGED <<input, messages, my_sent_ids, scroll_offset, ui_pending>>
      [] k.code = "Char" ->
            /\ Len(input) < MaxInput
            /\ input' = Append(input, k.c)
            /\ ui_pc' = "drain"
            /\ UNCHANGED <<messages, mode, my_sent_ids, scroll_offset, ui_pending>>
      [] k.code = "Backspace" ->
            /\ input' = IF input = <<>> THEN <<>> ELSE SubSeq(input, 1, Len(input) - 1)
            /\ ui_pc' = "drain"
            /\ UNCHANGED <<messages, mode, my_sent_ids, scroll_offset, ui_pending>>
      [] k.code = "Enter" -> on_Enter
      [] OTHER ->
            /\ ui_pc' = "drain"
            /\ UNCHANGED <<app_vars, ui_pending>>

\* tui.rs 220-256: `match key.code` in normal mode
normal_mode_key(k) ==
    CASE k.code = "Char" /\ k.c = "i" ->
            /\ mode' = "Insert"
            /\ ui_pc' = "drain"
            /\ UNCHANGED <<input, messages, my_sent_ids, scroll_offset, ui_pending>>
      [] k.code \in {"Up", "PageUp"} ->
            /\ scroll_offset' =
                 scroll_up(scroll_offset, Len(messages),
                           IF k.code = "Up" THEN SCROLL_LINE ELSE SCROLL_PAGE)
            /\ ui_pc' = "drain"
            /\ UNCHANGED <<input, messages, mode, my_sent_ids, ui_pending>>
      [] k.code \in {"Down", "PageDown"} ->
            /\ scroll_offset' =
                 scroll_down(scroll_offset,
                             IF k.code = "Down" THEN SCROLL_LINE ELSE SCROLL_PAGE)
            /\ ui_pc' = "drain"
            /\ UNCHANGED <<input, messages, mode, my_sent_ids, ui_pending>>
      [] k.code = "Char" /\ k.c = "c" /\ k.ctrl ->
            /\ ui_pc' = "quit"
            /\ UNCHANGED <<app_vars, ui_pending>>
      [] k.code = "Char" /\ k.c = "d" /\ k.ctrl -> on_CtrlD
      [] OTHER ->
            /\ ui_pc' = "drain"
            /\ UNCHANGED <<app_vars, ui_pending>>

\* tui.rs 183-258: the poll reads key event k
KeyEvent(k) ==
    /\ ui_pc = "poll"
    /\ n_keys < MaxKeys
    /\ n_keys' = n_keys + 1
    /\ IF mode = "Insert" THEN insert_mode_key(k) ELSE normal_mode_key(k)
    /\ last' = [op |-> "key", key |-> k]
    /\ UNCHANGED <<tracker_vars, chan_vars, published, n_recv, script, first_seen>>

\* tui.rs 212-213: input_tx.send((text, id)).await completes; app.input.clear()
SendInput ==
    /\ ui_pc = "send_input"
    /\ Len(input_chan) < ChanCap
    /\ input_chan' = Append(input_chan, ui_pending)
    /\ input' = <<>>
    /\ ui_pending' = None
    /\ ui_pc' = "drain"
    /\ last' = [op |-> "input_tx.send", sent |-> ui_pending]
    /\ UNCHANGED <<tracker_vars, messages, mode, my_sent_ids, scroll_offset,
                   ui_chan, delete_chan, published, n_recv, script, n_keys,
                   first_seen>>

\* tui.rs 247: delete_tx.send(id).await completes
SendDelete ==
    /\ ui_pc = "send_delete"
    /\ Len(delete_chan) < ChanCap
    /\ delete_chan' = Append(delete_chan, ui_pending)
    /\ ui_pending' = None
    /\ ui_pc' = "drain"
    /\ last' = [op |-> "delete_tx.send", sent |-> ui_pending]
    /\ UNCHANGED <<tracker_vars, app_vars, ui_chan, input_chan, published,
                   n_recv, script, n_keys, first_seen>>

\* ------------------------------------------------------- the outbound flow

\* The consumer of input_rx: encrypt the text and broadcast it.
OutboundText ==
    /\ input_chan # <<>>
    /\ \E nonce \in Nonces :
         published' = published \cup
            {encrypt_message_body(Head(input_chan)[1], my_id, topic,
                                  Head(input_chan)[2], nonce)}
    /\ input_chan' = Tail(input_chan)
    /\ last' = [op |-> "broadcast", of |-> "text"]
    /\ UNCHANGED <<tracker_vars, ui_vars, ui_chan, delete_chan, n_recv, script,
                   n_keys, first_seen>>

\* The consumer of delete_rx: broadcast a DeleteMessage of the local endpoint.
OutboundDelete ==
    /\ delete_chan # <<>>
    /\ published' = published \cup {DeleteMessage(my_id, Head(delete_chan))}
    /\ delete_chan' = Tail(delete_chan)
    /\ last' = [op |-> "broadcast", of |-> "delete"]
    /\ UNCHANGED <<tracker_vars, ui_vars, ui_chan, input_chan, n_recv, script,
                   n_keys, first_seen>>

\* ------------------------------------------------------- specifications

\* gossip.rs 28-31, app.rs 126-134, tui.rs 34: the state after construction
InitWith(sc) ==
    /\ names = MapInsert(EmptyMap, my_id, my_name)
    /\ message_owners = EmptyMap
    /\ loop_state = "running"
    /\ input = <<>>
    /\ messages = <<>>
    /\ mode = "Insert"
    /\ my_sent_ids = <<>>
    /\ scroll_offset = 0
    /\ ui_pc = "drain"
    /\ ui_pending = None
    /\ ui_chan = <<>>
    /\ input_chan = <<>>
    /\ delete_chan = <<>>
    /\ published = {}
    /\ n_recv = 0
    /\ script = sc
    /\ n_keys = 0
    /\ last = [op |-> "new"]
    /\ first_seen = EmptyMap

\* No script: the stream is whatever the substrate delivers.
NoScript == [head |-> <<>>, late |-> 0]

Init == InitWith(NoScript)

\* The stream items of Spec: a chat message of another peer, its delete request
\* and a delete request that names the local endpoint.
CoreItems ==
    {Received(encrypt_message_body(<<"a">>, "px", topic, 1, "n1")),
     Received(DeleteMessage("px", 1)),
     Received(DeleteMessage(my_id, 1))}

\* The substrate delivers anything, in any order, any number of times.
Deliver ==
    /\ n_recv < MaxRecv
    /\ \E item \in StreamItems : subscribe_loop(item)

DeliverCore ==
    /\ n_recv < MaxCoreRecv
    /\ \E item \in CoreItems : subscribe_loop(item)

Terminal ==
    \E k \in (IF mode = "Insert" THEN InsertKeys ELSE NormalKeys) : KeyEvent(k)

\* The receive loop under any stream, and the UI loop consuming its events.
NextTracker ==
    \/ Deliver
    \/ DrainRecv
    \/ DrainEmpty
    \/ PollIdle

SpecTracker == Init /\ [][NextTracker]_vars

\* A long session. The stream repeats three items that each put one entry into
\* the history: a chat message, an announcement, a message of another topic.
FillCycle ==
    <<Received(encrypt_message_body(<<"a">>, "px", topic, 2, "n1")),
      Received(AboutMe("px", "Al")),
      Received(encrypt_message_body(<<"a">>, "py", "tB", 2, "n1"))>>

\* The scripts of SpecFill: `head` comes first, then FillCycle over and over,
\* with the local endpoint's delete request for message 1 as item `late`.
FillScripts ==
    { \* nothing but the cycle
      [head |-> <<>>, late |-> 0],
      \* a delete request that overtakes the chat message it is for
      [head |-> <<Received(DeleteMessage("px", 1)),
                  Received(encrypt_message_body(<<"a">>, "px", topic, 1, "n1"))>>,
       late |-> 0],
      \* the same, and the delete request delivered once more
      [head |-> <<Received(DeleteMessage("px", 1)),
                  Received(encrypt_message_body(<<"a">>, "px", topic, 1, "n1")),
                  Received(DeleteMessage("px", 1))>>,
       late |-> 0],
      \* the local endpoint's own message, deleted once the history is full
      [head |-> <<Received(encrypt_message_body(<<"a">>, my_id, topic, 1, "n1"))>>,
       late |-> MAX_MESSAGES + 2] }

ItemAt(sc, n) ==
    IF n <= Len(sc.head) THEN sc.head[n]
    ELSE IF n = sc.late THEN Received(DeleteMessage(my_id, 1))
    ELSE FillCycle[((n - 1) % 3) + 1]

DeliverScript ==
    /\ n_recv < Len(script.head) + FillLen
    /\ subscribe_loop(ItemAt(script, n_recv + 1))

InitFill == \E sc \in FillScripts : InitWith(sc)

NextFill ==
    \/ DeliverScript
    \/ DrainRecv
    \/ DrainEmpty
    \/ PollIdle

SpecFill == InitFill /\ [][NextFill]_vars

\* --------------------------------------------- the receive loop's ending
\* The receive loop under a stream of every kind of item, next to a UI that
\* the user leaves with Esc and Ctrl+C.

ShutdownItems ==
    {Received(encrypt_message_body(<<"a">>, "px", topic, 1, "n1")),
     Received(encrypt_message_body(<<"a">>, "px", "tB", 1, "n1")),
     Received(DeleteMessage("py", 1)),
     Malformed, OtherEvent, StreamEnd, StreamError}

DeliverShutdown ==
    /\ n_recv < MaxRecv
    /\ \E item \in ShutdownItems : subscribe_loop(item)

\* tui.rs 190, 233-237: Esc leaves insert mode, Ctrl+C in normal mode ends run_tui
TerminalQuit ==
    KeyEvent(IF mode = "Insert" THEN Key("Esc") ELSE CtrlKey("c"))

NextShutdown ==
    \/ DeliverShutdown
    \/ DrainRecv
    \/ DrainEmpty
    \/ PollIdle
    \/ TerminalQuit

SpecShutdown == Init /\ [][NextShutdown]_vars

\* ------------------------------------------------- one id, many times
\* The stream delivers, in any order and any number of times, envelopes that
\* all carry message id 1: px's and py's EncryptedChat and px's DeleteRequest.

ReplayItems ==
    {Received(encrypt_message_body(<<"a">>, "px", topic, 1, "n1")),
     Received(encrypt_message_body(<<"a">>, "py", topic, 1, "n1")),
     Received(DeleteMessage("px", 1))}

DeliverReplay ==
    /\ n_recv < MaxRecv
    /\ \E item \in ReplayItems : subscribe_loop(item)

NextReplay ==
    \/ DeliverReplay
    \/ DrainRecv
    \/ DrainEmpty
    \/ PollIdle

SpecReplay == Init /\ [][NextReplay]_vars

\* ------------------------------------------- the App's scroll operations
\* App::scroll_up and App::scroll_down called with any distance on a History
\* of notices.

\* Scroll distances: the small ones, and one far beyond any offset.
ScrollArgs == (0..MaxScrollArg) \cup {100}

\* app.rs 155-172: add_message(System(..)) called on the App
AddNotice ==
    /\ Len(messages) < MaxScrollLen
    /\ LET app == add_message(messages, my_sent_ids, SystemMsg(<<"notice">>)) IN
       /\ messages' = app.messages
       /\ my_sent_ids' = app.my_sent_ids
    /\ last' = [op |-> "add_message", msg |-> SystemMsg(<<"notice">>),
                from |-> "call"]
    /\ UNCHANGED <<tracker_vars, input, mode, scroll_offset, ui_pc, ui_pending,
                   chan_vars, published, n_recv, script, n_keys, first_seen>>

\* app.rs 187-189: App::scroll_up(n)
ScrollUp(n) ==
    /\ scroll_offset' = scroll_up(scroll_offset, Len(messages), n)
    /\ last' = [op |-> "scroll_up", n |-> n, from |-> scroll_offset]
    /\ UNCHANGED <<tracker_vars, input, messages, mode, my_sent_ids, ui_pc,
                   ui_pending, chan_vars, published, n_recv, script, n_keys,
                   first_seen>>

\* app.rs 205-207: App::scroll_down(n)
ScrollDown(n) ==
    /\ scroll_offset' = scroll_down(scroll_offset, n)
    /\ last' = [op |-> "scroll_down", n |-> n, from |-> scroll_offset]
    /\ UNCHANGED <<tracker_vars, input, messages, mode, my_sent_ids, ui_pc,
                   ui_pending, chan_vars, published, n_recv, script, n_keys,
                   first_seen>>

NextScroll ==
    \/ AddNotice
    \/ \E n \in ScrollArgs : ScrollUp(n)
    \/ \E n \in ScrollArgs : ScrollDown(n)

SpecScroll == Init /\ [][NextScroll]_vars

\* ------------------------------------------------ the App's view state
\* App::add_message called with every kind of event, between calls of
\* App::scroll_up and App::scroll_down.

ViewEvents ==
    {ChatMessage(1, "Al", <<"a">>), SystemMsg(<<"notice">>), DeleteMsg(1)}

\* app.rs 155-172: add_message(msg) called on the App
AddEntry(msg) ==
    /\ Len(messages) < MaxScrollLen
    /\ LET app == add_message(messages, my_sent_ids, msg) IN
       /\ messages' = app.messages
       /\ my_sent_ids' = app.my_sent_ids
    /\ last' = [op |-> "add_message", msg |-> msg, from |-> "call"]
    /\ UNCHANGED <<tracker_vars, input, mode, scroll_offset, ui_pc, ui_pending,
                   chan_vars, published, n_recv, script, n_keys, first_seen>>

NextView ==
    \/ \E msg \in ViewEvents : AddEntry(msg)
    \/ \E n \in ScrollArgs : ScrollUp(n)
    \/ \E n \in ScrollArgs : ScrollDown(n)

SpecView == Init /\ [][NextView]_vars

\* ------------------------------------------------- the crypto functions
\* encrypt_message and decrypt_message called with any text, topic and nonce,
\* and an encrypted message delivered to the receive loop.

\* Endpoints that encrypt in SpecCrypto, and the nonces decrypt is tried with.
CryptoSenders == {my_id, "px"}
CryptoNonces == Nonces \cup {"n0"}

\* crypto.rs 57-75: encrypt_message(text, from, topic, id)
EncryptCall(text, from, t, id, nonce) ==
    /\ last' = [op |-> "encrypt_message", text |-> text, enc_topic |-> t,
                msg |-> encrypt_message_body(text, from, t, id, nonce)]
    /\ UNCHANGED <<tracker_vars, ui_vars, chan_vars, published, n_recv, script,
                   n_keys, first_seen>>

\* crypto.rs 97-107: decrypt_message(ciphertext, nonce, topic) on the
\* ciphertext just produced
DecryptCall(nonce, t) ==
    /\ last.op = "encrypt_message"
    /\ last' = [op |-> "decrypt_message", text |-> last.text,
                enc_topic |-> last.enc_topic, msg |-> last.msg,
                nonce |-> nonce, topic |-> t,
                res |-> decrypt_message(last.msg.ciphertext, nonce, t)]
    /\ UNCHANGED <<tracker_vars, ui_vars, chan_vars, published, n_recv, script,
                   n_keys, first_seen>>

\* gossip.rs 33-35: the message just encrypted arrives at the receive loop
DeliverEncrypted ==
    /\ last.op = "encrypt_message"
    /\ n_recv < MaxCryptoRecv
    /\ subscribe_loop(Received(last.msg))

NextCrypto ==
    \/ \E text \in Texts, from \in CryptoSenders, t \in TopicIds, n \in Nonces :
            EncryptCall(text, from, t, 1, n)
    \/ \E n \in CryptoNonces, t \in TopicIds : DecryptCall(n, t)
    \/ DeliverEncrypted

SpecCrypto == Init /\ [][NextCrypto]_vars

\* ------------------------------------------------------ protocol.rs: Ticket

\* data_encoding::BASE32_NOPAD: the RFC 4648 alphabet, no padding.
Base32Upper ==
    <<"A", "B", "C", "D", "E", "F", "G", "H", "I", "J", "K", "L", "M", "N", "O",
      "P", "Q", "R", "S", "T", "U", "V", "W", "X", "Y", "Z", "2", "3", "4", "5",
      "6", "7">>
Base32Lower ==
    <<"a", "b", "c", "d", "e", "f", "g", "h", "i", "j", "k", "l", "m", "n", "o",
      "p", "q", "r", "s", "t", "u", "v", "w", "x", "y", "z", "2", "3", "4", "5",
      "6", "7">>

\* u8::to_ascii_lowercase / to_ascii_uppercase on one character (the letters
\* of the model are those of the alphabet)
ascii_lower(c) ==
    IF \E i \in 1..26 : Base32Upper[i] = c
    THEN Base32Lower[CHOOSE i \in 1..26 : Base32Upper[i] = c] ELSE c
ascii_upper(c) ==
    IF \E i \in 1..26 : Base32Lower[i] = c
    THEN Base32Upper[CHOOSE i \in 1..26 : Base32Lower[i] = c] ELSE c

\* String::make_ascii_lowercase, str::to_ascii_uppercase
make_ascii_lowercase(text) == [k \in 1..Len(text) |-> ascii_lower(text[k])]
to_ascii_uppercase(text) == [k \in 1..Len(text) |-> ascii_upper(text[k])]

\* The w bits of v, most significant first.
BitsOf(v, w) == [i \in 1..w |-> (v \div (2 ^ (w - i))) % 2]

\* The value of the w bits of `bits` after the first `from`.
RECURSIVE ValueOf(_, _, _)
ValueOf(bits, from, w) ==
    IF w = 0 THEN 0
    ELSE 2 * ValueOf(bits, from, w - 1) + bits[from + w]

RECURSIVE ConcatBits(_, _)
ConcatBits(vals, w) ==
    IF vals = <<>> THEN <<>>
    ELSE BitsOf(Head(vals), w) \o ConcatBits(Tail(vals), w)

\* BASE32_NOPAD.encode: the bits of the bytes in groups of five, the last
\* group filled with zero bits, no '='
BASE32_NOPAD_encode(bytes) ==
    LET bits == ConcatBits(bytes, 8)
        fill == (5 - (Len(bits) % 5)) % 5
        all == bits \o [i \in 1..fill |-> 0]
    IN  [k \in 1..(Len(all) \div 5) |-> Base32Upper[ValueOf(all, 5 * (k - 1), 5) + 1]]

\* BASE32_NOPAD.decode: an error on a symbol outside the alphabet, on a length
\* no encoding has, and on trailing bits that are not zero
BASE32_NOPAD_decode(text) ==
    IF \E k \in 1..Len(text) : \A i \in 1..32 : Base32Upper[i] # text[k]
    THEN [ok |-> FALSE, err |-> "invalid symbol"]
    ELSE IF (Len(text) % 8) \in {1, 3, 6}
    THEN [ok |-> FALSE, err |-> "invalid length"]
    ELSE LET vals == [k \in 1..Len(text) |->
                        (CHOOSE i \in 1..32 : Base32Upper[i] = text[k]) - 1]
             bits == ConcatBits(vals, 5)
             n == Len(bits) \div 8
         IN  IF \E j \in (8 * n + 1)..Len(bits) : bits[j] = 1
             THEN [ok |-> FALSE, err |-> "non-zero trailing bits"]
             ELSE [ok |-> TRUE,
                   bytes |-> [j \in 1..n |-> ValueOf(bits, 8 * (j - 1), 8)]]

\* The topics and endpoint addresses a Ticket can hold.
TicketPeers == {"px", "py"}
Tickets ==
    {[topic |-> t, endpoints |-> e] :
        t \in TopicIds,
        e \in UNION {[1..n -> TicketPeers] : n \in 0..MaxTicketPeers}}

\* serde_json of a topic and of an endpoint address, kept to one byte each.
TopicByte(t) == IF t = "tA" THEN 65 ELSE 66
PeerByte(e) == IF e = "px" THEN 120 ELSE 121

\* protocol.rs 70-72: Ticket::to_bytes, serde_json::to_vec kept to the shape
\* `{` topic `[` endpoints `]` `}`
Ticket_to_bytes(t) ==
    <<123, TopicByte(t.topic), 91>>
        \o [k \in 1..Len(t.endpoints) |-> PeerByte(t.endpoints[k])]
        \o <<93, 125>>

\* protocol.rs 66-68: Ticket::from_bytes, serde_json::from_slice for that
\* shape: an error on anything else
Ticket_from_bytes(bytes) ==
    LET n == Len(bytes)
        wellformed ==
            /\ n >= 5
            /\ bytes[1] = 123
            /\ bytes[2] \in {TopicByte(t) : t \in TopicIds}
            /\ bytes[3] = 91
            /\ \A k \in 4..(n - 2) : bytes[k] \in {PeerByte(e) : e \in TicketPeers}
            /\ bytes[n - 1] = 93
            /\ bytes[n] = 125
    IN  IF wellformed
        THEN [ok |-> TRUE,
              ticket |-> [topic |-> CHOOSE t \in TopicIds : TopicByte(t) = bytes[2],
                          endpoints |-> [k \in 1..(n - 5) |->
                                CHOOSE e \in TicketPeers : PeerByte(e) = bytes[k + 3]]]]
        ELSE [ok |-> FALSE, err |-> "serde_json"]

\* protocol.rs 75-81: impl Display for Ticket
Ticket_fmt(t) == make_ascii_lowercase(BASE32_NOPAD_encode(Ticket_to_bytes(t)))

\* from_str that decodes the text as it is
Ticket_from_str_as_is(text) ==
    LET dec == BASE32_NOPAD_decode(text)
    IN  IF dec.ok THEN Ticket_from_bytes(dec.bytes) ELSE dec

\* protocol.rs 83-89: impl FromStr for Ticket
Ticket_from_str(text) ==
    LET dec == BASE32_NOPAD_decode(to_ascii_uppercase(text))
    IN  IF dec.ok THEN Ticket_from_bytes(dec.bytes) ELSE dec

\* Texts handed to from_str for a ticket text: the text itself, in upper case,
\* cut short, extended, and with one symbol replaced.
TicketInputs(text) ==
    {text, to_ascii_uppercase(text), Append(text, "a"), Append(text, "=")}
    \cup {SubSeq(text, 1, k) : k \in 0..(Len(text) - 1)}
    \cup {[text EXCEPT ![k] = c] : k \in 1..Len(text), c \in {"1", "b", "7"}}

\* `ticket.to_string()`
TicketDisplay(t) ==
    /\ last' = [op |-> "Ticket::fmt", ticket |-> t, text |-> Ticket_fmt(t)]
    /\ UNCHANGED <<tracker_vars, ui_vars, chan_vars, published, n_recv, script,
                   n_keys, first_seen>>

\* `Ticket::from_str(s)` on a text derived from the one just displayed
TicketParse ==
    /\ last.op = "Ticket::fmt"
    /\ \E s \in TicketInputs(last.text) :
         last' = [op |-> "Ticket::from_str", ticket |-> last.ticket,
                  text |-> last.text, input |-> s, res |-> Ticket_from_str(s)]
    /\ UNCHANGED <<tracker_vars, ui_vars, chan_vars, published, n_recv, script,
                   n_keys, first_seen>>

NextTicket ==
    \/ \E t \in Tickets : TicketDisplay(t)
    \/ TicketParse

SpecTicket == Init /\ [][NextTicket]_vars

\* ----------------------------------------------------------------- main.rs

\* main.rs 139: MessageBody::Message { from, text }
PlainMessage(from, text) == [type |-> "Message", from |-> from, text |-> text]

\* main.rs 94-100: broadcast our name, if set
main_about_me(name) ==
    /\ last.op = "new"
    /\ published' = published \cup {AboutMe(my_id, name)}
    /\ last' = [op |-> "main.about_me", body |-> AboutMe(my_id, name)]
    /\ UNCHANGED <<tracker_vars, ui_vars, chan_vars, n_recv, script, n_keys,
                   first_seen>>

\* main.rs 114-124: one turn of `while let Some(text) = line_rx.recv().await`,
\* text being the line input_loop read from stdin
main_broadcast(text) ==
    /\ published' = published \cup {PlainMessage(my_id, text)}
    /\ last' = [op |-> "main.broadcast", text |-> text,
                body |-> PlainMessage(my_id, text)]
    /\ UNCHANGED <<tracker_vars, ui_vars, chan_vars, n_recv, script, n_keys,
                   first_seen>>

NextMain ==
    \/ \E name \in DisplayNames : main_about_me(name)
    \/ \E text \in Texts : main_broadcast(text)

SpecMain == Init /\ [][NextMain]_vars

\* The three flows together.
Next ==
    \/ DeliverCore
    \/ DrainRecv
    \/ DrainEmpty
    \/ PollIdle
    \/ Terminal
    \/ SendInput
    \/ SendDelete
    \/ OutboundText
    \/ OutboundDelete

Spec == Init /\ [][Next]_vars

\* ------------------------------------------------------------------ claims

\* The step just taken is the receive loop handling a decoded body of type t.
Handled(l, t) ==
    /\ l.op = "subscribe_loop"
    /\ l.item.ev = "Received"
    /\ l.item.decodes
    /\ l.item.body.type = t

\* The Ownership Table records p as the owner of id.
OwnedBy(id, p) ==
    /\ id \in DOMAIN message_owners
    /\ message_owners[id] = p

\* C1: handling a DeleteRequest{peer_id, message_id} sends Delete(message_id)
\* to the UI if and only if, when it is handled, the Ownership Table holds
\* message_id with owner peer_id; otherwise it sends nothing.
C1_DeleteEmittedIffOwner ==
    [][Handled(last', "DeleteMessage") =>
        LET b == last'.item.body IN
        /\ OwnedBy(b.id, b.from) <=> (ui_chan' = Append(ui_chan, DeleteMsg(b.id)))
        /\ OwnedBy(b.id, b.from) <=> (last'.emitted = <<DeleteMsg(b.id)>>)
        /\ ~OwnedBy(b.id, b.from) <=> (ui_chan' = ui_chan)]_vars

\* C1 witness: a DeleteRequest from the recorded owner was handled and Delete sent.
C1_Witness ==
    /\ Handled(last, "DeleteMessage")
    /\ last.emitted = <<DeleteMsg(last.item.body.id)>>
    /\ Len(ui_chan) > 0
    /\ ui_chan[Len(ui_chan)] = DeleteMsg(last.item.body.id)

\* C2 (as claimed): Delete(id) is sent only for a DeleteRequest whose peer_id is
\* the peer_id of the first EncryptedChat handled with that id.
C2_DeleteOnlyFromFirstSender ==
    (Handled(last, "DeleteMessage") /\ last.emitted # <<>>) =>
        LET b == last.item.body IN
        /\ b.id \in DOMAIN first_seen
        /\ first_seen[b.id] = b.from

\* C3: handling a DeleteRequest that is not authorized (unknown id, or another
\* owner) sends no event and leaves the Peer Directory, the Ownership Table,
\* the event queue, the Chat History and the Sent-Id Queue as they were.
C3_UnauthorizedDeleteChangesNothing ==
    [][(/\ Handled(last', "DeleteMessage")
        /\ ~OwnedBy(last'.item.body.id, last'.item.body.from))
        => /\ last'.emitted = <<>>
           /\ UNCHANGED <<names, message_owners, loop_state, ui_chan, messages,
                          my_sent_ids>>]_vars

\* C3 witness: a DeleteRequest for a message another peer owns was handled and
\* nothing was sent.
C3_Witness ==
    /\ Handled(last, "DeleteMessage")
    /\ last.emitted = <<>>
    /\ last.item.body.id \in DOMAIN message_owners
    /\ message_owners[last.item.body.id] # last.item.body.from

C5_DuplicateDeleteDropped ==
    [][/\ (/\ Handled(last', "DeleteMessage")
           /\ OwnedBy(last'.item.body.id, last'.item.body.from))
            => last'.item.body.id \notin DOMAIN message_owners'
       /\ (/\ Handled(last, "DeleteMessage")
           /\ last.emitted # <<>>
           /\ Handled(last', "DeleteMessage")
           /\ last'.item = last.item)
            => /\ last'.emitted = <<>>
               /\ UNCHANGED <<names, message_owners, loop_state, ui_chan>>]_vars

\* C5 witness: a DeleteRequest from the first sender of an id was dropped
\* because the entry of the id had been removed.
C5_Witness ==
    /\ Handled(last, "DeleteMessage")
    /\ last.emitted = <<>>
    /\ last.item.body.id \in DOMAIN first_seen
    /\ first_seen[last.item.body.id] = last.item.body.from
    /\ last.item.body.id \notin DOMAIN message_owners

\* m is a Chat entry with message id i.
IsChat(m, i) == m.kind = "Chat" /\ m.id = i

\* The Chat History holds a Chat entry with message id i.
HasChat(i) == \E k \in 1..Len(messages) : IsChat(messages[k], i)

\* The stream began with px's DeleteRequest for i and then px's EncryptedChat
\* for i, and the receive loop has handled both.
Overtaken(i) ==
    /\ Len(script.head) >= 2
    /\ script.head[1] = Received(DeleteMessage("px", i))
    /\ script.head[2].body.type = "EncryptedMessage"
    /\ script.head[2].body.from = "px"
    /\ script.head[2].body.id = i
    /\ n_recv >= 2

\* The step applies Delete(i) to the App: an event from the queue, or the
\* self-delete of the last sent id.
AppliesDelete(i) ==
    \/ /\ last'.op = "add_message"
       /\ last'.msg = DeleteMsg(i)
    \/ /\ last'.op = "key"
       /\ last'.key = CtrlKey("d")
       /\ mode = "Normal"
       /\ my_sent_ids # <<>>
       /\ my_sent_ids[Len(my_sent_ids)] = i

\* C6 (as claimed): after a DeleteRequest for i that was handled before the
\* EncryptedChat it targets, the Chat entry with id i leaves the History only
\* when a Delete(i) event that a later DeleteRequest caused is applied.
C6_ChatStaysUnlessDeleteRequest ==
    [][\A i \in MessageIds :
        (Overtaken(i) /\ HasChat(i) /\ ~HasChat(i)')
            => (last'.op = "add_message" /\ last'.msg = DeleteMsg(i))]_vars

\* C6 (amended): a DeleteRequest for an id with no owner entry is dropped and
\* leaves the tracker as it was; an EncryptedChat of another peer that opens
\* under the topic's key to a text is sent to the UI as a Chat event and a Chat event
\* applied is the last entry of the History; and a Chat entry with id i leaves
\* the History only when Delete(i) is applied (a later authorized
\* DeleteRequest, or the local self-delete of the same id) or when all entries
\* with id i are among the TRIM_BATCH oldest of a full History that is trimmed.
C6_ChatStaysUnlessDeletedOrTrimmed ==
    [][/\ (/\ Handled(last', "DeleteMessage")
           /\ last'.item.body.id \notin DOMAIN message_owners)
            => /\ last'.emitted = <<>>
               /\ UNCHANGED <<names, message_owners, loop_state, ui_chan>>
       /\ (/\ Handled(last', "EncryptedMessage")
           /\ last'.item.body.from # my_id
           /\ last'.item.body.ciphertext.key = get_encryption_key(topic)
           /\ last'.item.body.ciphertext.nonce = last'.item.body.nonce
           /\ last'.item.body.ciphertext.bytes # NotUtf8)
            => /\ Len(last'.emitted) = 1
               /\ IsChat(last'.emitted[1], last'.item.body.id)
               /\ as_bytes(last'.emitted[1].content) = last'.item.body.ciphertext.bytes
               /\ ui_pc # "quit" => ui_chan' = ui_chan \o last'.emitted
       /\ (last'.op = "add_message" /\ last'.msg.kind = "Chat")
            => messages'[Len(messages')] = last'.msg
       /\ \A i \in MessageIds :
            (HasChat(i) /\ ~HasChat(i)')
                => \/ AppliesDelete(i)
                   \/ /\ Len(messages) >= MAX_MESSAGES
                      /\ \A k \in 1..Len(messages) :
                            IsChat(messages[k], i) => k <= TRIM_BATCH]_vars

\* C6 witness: the DeleteRequest overtook the EncryptedChat and was dropped, the
\* Chat entry was displayed and is still in the History after later entries.
C6_Witness ==
    /\ Overtaken(1)
    /\ HasChat(1)
    /\ OwnedBy(1, "px")
    /\ Len(messages) > 1

\* C7 (as claimed): the History never holds more than MAX_MESSAGES entries
\* once add_message has returned, whatever events were added.
C7_HistoryNeverOverLimit == Len(messages) <= MAX_MESSAGES

\* C8: a non-delete event added to a History of at most MAX_MESSAGES entries
\* is appended at the end; when that makes MAX_MESSAGES + 1 entries, exactly
\* the TRIM_BATCH oldest are removed and the rest keep their order, which
\* leaves MAX_MESSAGES + 1 - TRIM_BATCH entries; the length after the insert
\* is at most MAX_MESSAGES.
C8_AppendThenTrimOldest ==
    [][(/\ last'.op = "add_message"
        /\ last'.msg.kind # "Delete"
        /\ Len(messages) <= MAX_MESSAGES)
        => LET all == Append(messages, last'.msg) IN
           /\ Len(messages) < MAX_MESSAGES => messages' = all
           /\ Len(messages) = MAX_MESSAGES =>
                /\ Len(messages') = MAX_MESSAGES + 1 - TRIM_BATCH
                /\ \A k \in 1..Len(messages') : messages'[k] = all[k + TRIM_BATCH]
           /\ Len(messages') <= MAX_MESSAGES
           /\ messages'[Len(messages')] = last'.msg]_vars

\* C8 witness: only non-delete events were added, starting from the empty
\* History, and the second trim has just happened.
C8_Witness ==
    /\ script.head = <<>>
    /\ script.late = 0
    /\ n_recv >= MAX_MESSAGES + TRIM_BATCH + 1
    /\ last.op = "add_message"
    /\ last.msg.kind # "Delete"
    /\ Len(messages) = MAX_MESSAGES + 1 - TRIM_BATCH

\* The step is Ctrl+D handled in normal mode.
CtrlDStep ==
    /\ last'.op = "key"
    /\ last'.key = CtrlKey("d")
    /\ mode = "Normal"

\* C9: a step that applies Delete(i) leaves in the History exactly the entries
\* that are not Chat entries with id i, in their order, followed by one
\* "A message was deleted." notice; leaves in the Sent-Id Queue exactly the ids
\* other than i, in their order; leaves the scroll offset, the input buffer and
\* the mode as they were; and stores no entry of kind Delete.
C9_DeleteRemovesAndNotifiesOnly ==
    [][\A i \in MessageIds : AppliesDelete(i) =>
        LET KeptIdx == {k \in 1..Len(messages) : ~IsChat(messages[k], i)}
            Rank(k) == Cardinality({x \in KeptIdx : x <= k})
            KeptSent == {k \in 1..Len(my_sent_ids) : my_sent_ids[k] # i}
            RankSent(k) == Cardinality({x \in KeptSent : x <= k})
        IN  /\ Len(messages') = Cardinality(KeptIdx) + 1
            /\ \A k \in KeptIdx : messages'[Rank(k)] = messages[k]
            /\ messages'[Len(messages')] = SystemMsg(<<"A message was deleted.">>)
            /\ Len(my_sent_ids') = Cardinality(KeptSent)
            /\ \A k \in KeptSent : my_sent_ids'[RankSent(k)] = my_sent_ids[k]
            /\ UNCHANGED <<scroll_offset, input, mode>>
            /\ \A k \in 1..Len(messages') : messages'[k].kind # "Delete"]_vars

\* C9 witness: Delete(1) for px's message has just been applied while the view
\* was scrolled up, and the local Chat entry with id 2 and the Sent-Id Queue
\* are still there.
C9_Witness ==
    /\ last.op = "add_message"
    /\ last.msg = DeleteMsg(1)
    /\ 1 \in DOMAIN first_seen
    /\ first_seen[1] = "px"
    /\ ~HasChat(1)
    /\ HasChat(2)
    /\ my_sent_ids = <<2>>
    /\ scroll_offset > 0

\* C10: Ctrl+D in normal mode with a non-empty Sent-Id Queue takes the last id
\* of the queue, removes its Chat entries and the id from the queue in the
\* same step, appends the deletion notice, and holds that id for the send;
\* the send puts exactly the held id on the delete channel, and nothing else
\* ever puts an id there. With an empty queue it appends the
\* "No messages to delete." notice only and starts no send.
C10_SelfDeleteLastSentId ==
    [][/\ (CtrlDStep /\ my_sent_ids # <<>>) =>
            LET id == my_sent_ids[Len(my_sent_ids)] IN
            /\ \A k \in 1..Len(messages') : ~IsChat(messages'[k], id)
            /\ \A k \in 1..Len(my_sent_ids') : my_sent_ids'[k] # id
            /\ messages'[Len(messages')] = SystemMsg(<<"A message was deleted.">>)
            /\ ui_pc' = "send_delete"
            /\ ui_pending' = id
            /\ delete_chan' = delete_chan
       /\ (CtrlDStep /\ my_sent_ids = <<>>) =>
            /\ messages'[Len(messages')] = SystemMsg(<<"No messages to delete.">>)
            /\ \A k \in 1..(Len(messages') - 1) : messages'[k] \in
                    {messages[j] : j \in 1..Len(messages)}
            /\ my_sent_ids' = <<>>
            /\ ui_pc' = "drain"
            /\ UNCHANGED <<delete_chan, ui_pending>>
       /\ (ui_pc # "send_delete" /\ ui_pc' = "send_delete")
            => (CtrlDStep /\ my_sent_ids # <<>>)
       /\ (ui_pc = "send_delete" /\ ui_pc' = "send_delete")
            => ui_pending' = ui_pending
       /\ (ui_pc = "send_delete" /\ ui_pc' # "send_delete")
            => /\ last'.op = "delete_tx.send"
               /\ delete_chan' = Append(delete_chan, ui_pending)
       /\ delete_chan' # delete_chan
            => \/ /\ last'.op = "delete_tx.send"
                  /\ ui_pc = "send_delete"
                  /\ delete_chan' = Append(delete_chan, ui_pending)
               \/ /\ last'.op = "broadcast"
                  /\ delete_chan' = Tail(delete_chan)]_vars

\* C10 witness: the id of a self-delete went out on the delete channel, and a
\* second Ctrl+D, on the empty queue, has just appended the local notice.
C10_Witness ==
    /\ last.op = "key"
    /\ last.key = CtrlKey("d")
    /\ my_sent_ids = <<>>
    /\ messages # <<>>
    /\ messages[Len(messages)] = SystemMsg(<<"No messages to delete.">>)
    /\ \E id \in MessageIds :
          \/ delete_chan = <<id>>
          \/ DeleteMessage(my_id, id) \in published

\* The ids in the Sent-Id Queue s.
SentIds(s) == {s[k] : k \in 1..Len(s)}

\* The step is Enter handled in insert mode with a non-empty input buffer.
EnterStep ==
    /\ last'.op = "key"
    /\ last'.key = Key("Enter")
    /\ mode = "Insert"
    /\ input # <<>>

\* C11: the Sent-Id Queue starts empty, and an id enters it only in the step
\* in which the local user sends a text with Enter, the step that also appends
\* the local Chat entry ("You", the typed text) with that id to the History;
\* a step that applies a received event never adds an id to the queue.
C11_SentIdsAreLocalSends ==
    /\ my_sent_ids = <<>>
    /\ [][/\ \A id \in SentIds(my_sent_ids') \ SentIds(my_sent_ids) :
                /\ EnterStep
                /\ messages'[Len(messages')] = ChatMessage(id, <<"You">>, input)
                /\ my_sent_ids' = Append(my_sent_ids, id)
          /\ last'.op = "add_message"
                => SentIds(my_sent_ids') \subseteq SentIds(my_sent_ids)]_vars

\* C11 witness: a received Chat event of px with id 1 has just been applied
\* while the queue holds the local id 2 only.
C11_Witness ==
    /\ last.op = "add_message"
    /\ last.msg.kind = "Chat"
    /\ last.msg.id = 1
    /\ last.msg.sender # <<"You">>
    /\ HasChat(1)
    /\ my_sent_ids = <<2>>

\* The step calls scroll_up(n): directly, or for Up / PageUp in normal mode.
ScrollUpStep(n) ==
    \/ last'.op = "scroll_up" /\ last'.n = n
    \/ /\ last'.op = "key"
       /\ mode = "Normal"
       /\ \/ last'.key = Key("Up") /\ n = SCROLL_LINE
          \/ last'.key = Key("PageUp") /\ n = SCROLL_PAGE

\* The step calls scroll_down(n): directly, or for Down / PageDown in normal
\* mode.
ScrollDownStep(n) ==
    \/ last'.op = "scroll_down" /\ last'.n = n
    \/ /\ last'.op = "key"
       /\ mode = "Normal"
       /\ \/ last'.key = Key("Down") /\ n = SCROLL_LINE
          \/ last'.key = Key("PageDown") /\ n = SCROLL_PAGE

\* C12: scroll_up(n) sets the offset to the smaller of offset + n and
\* len - 1, and to 0 on an empty History; scroll_down(n) sets it to the larger
\* of offset - n and 0; both leave the History and the Sent-Id Queue as they
\* were. With 5 entries at offset 0 scroll_up(10) gives 4, scroll_down(100)
\* gives 0 from any offset, and scroll_up(1) on an empty History gives 0.
C12_ScrollClamped ==
    [][\A n \in ScrollArgs :
        /\ ScrollUpStep(n) =>
            /\ scroll_offset' =
                 IF Len(messages) = 0 THEN 0
                 ELSE IF scroll_offset + n < Len(messages) - 1
                      THEN scroll_offset + n ELSE Len(messages) - 1
            /\ UNCHANGED <<messages, my_sent_ids>>
            /\ (Len(messages) = 5 /\ scroll_offset = 0 /\ n = 10)
                    => scroll_offset' = 4
            /\ (Len(messages) = 0 /\ n = 1) => scroll_offset' = 0
        /\ ScrollDownStep(n) =>
            /\ scroll_offset' =
                 IF scroll_offset - n > 0 THEN scroll_offset - n ELSE 0
            /\ UNCHANGED <<messages, my_sent_ids>>
            /\ n = 100 => scroll_offset' = 0]_vars

\* C12 witness: scroll_up(10) has just been called at offset 0 on a History of
\* 5 entries and was clamped to the last index.
C12_Witness ==
    /\ last.op = "scroll_up"
    /\ last.n = 10
    /\ last.from = 0
    /\ Len(messages) = 5
    /\ scroll_offset = 4

\* C13: handling an EncryptedChat of the local endpoint sets the owner of its
\* id to the local endpoint, keeps the other entries and the names, and sends
\* no event, whether or not the ciphertext opens; no Chat event is ever sent
\* for a message of the local endpoint; and a DeleteRequest of the local
\* endpoint handled while that record stands sends Delete(id).
C13_OwnMessageRecordedNotShown ==
    [][/\ (Handled(last', "EncryptedMessage") /\ last'.item.body.from = my_id) =>
            LET id == last'.item.body.id IN
            /\ DOMAIN message_owners' = DOMAIN message_owners \cup {id}
            /\ message_owners'[id] = my_id
            /\ \A j \in DOMAIN message_owners \ {id} :
                    message_owners'[j] = message_owners[j]
            /\ last'.emitted = <<>>
            /\ UNCHANGED <<names, ui_chan, loop_state, messages>>
       /\ (Handled(last', "DeleteMessage") /\ last'.item.body.from = my_id
           /\ OwnedBy(last'.item.body.id, my_id)) =>
            /\ last'.emitted = <<DeleteMsg(last'.item.body.id)>>
            /\ ui_pc # "quit" => ui_chan' = Append(ui_chan, DeleteMsg(last'.item.body.id))]_vars

\* C13 witness: the local endpoint's EncryptedChat with id 1 was the first
\* with that id, nothing of it is displayed, and the local endpoint's
\* DeleteRequest for it has just been authorized.
C13_Witness ==
    /\ Handled(last, "DeleteMessage")
    /\ last.item.body = DeleteMessage(my_id, 1)
    /\ last.emitted = <<DeleteMsg(1)>>
    /\ 1 \in DOMAIN first_seen
    /\ first_seen[1] = my_id
    /\ ~HasChat(1)
    /\ ui_chan = <<DeleteMsg(1)>>

\* The ciphertext of body b does not open to a text under the tracker's topic:
\* sealed under another key or nonce, or holding bytes that are no UTF-8.
DecryptFails(b) ==
    \/ b.ciphertext.key # get_encryption_key(topic)
    \/ b.ciphertext.nonce # b.nonce
    \/ b.ciphertext.bytes = NotUtf8

\* m is the notice of a failed decryption naming the sender n.
IsDecryptFailure(m, n) ==
    /\ m.kind = "System"
    /\ m.text[1] = "Failed to decrypt message from "
    /\ m.text[2] = n

\* C14: handling an EncryptedChat of another peer whose decryption fails sends
\* exactly one System notice that names the sender (its display name when
\* known, its short id otherwise) and no Chat event, records the sender as the
\* owner of the id, and leaves the loop running; the loop stops only on an
\* item that is no decoded message.
C14_DecryptFailureIsNotice ==
    [][/\ (/\ Handled(last', "EncryptedMessage")
           /\ last'.item.body.from # my_id
           /\ DecryptFails(last'.item.body)) =>
            LET b == last'.item.body IN
            /\ Len(last'.emitted) = 1
            /\ IsDecryptFailure(last'.emitted[1],
                    IF b.from \in DOMAIN names THEN names[b.from]
                    ELSE fmt_short(b.from))
            /\ ui_pc # "quit" => ui_chan' = Append(ui_chan, last'.emitted[1])
            /\ b.id \in DOMAIN message_owners'
            /\ message_owners'[b.id] = b.from
            /\ names' = names
            /\ loop_state' = "running"
       /\ (loop_state = "running" /\ loop_state' # "running") =>
            /\ last'.op = "subscribe_loop"
            /\ ~(last'.item.ev = "Received" /\ last'.item.decodes)]_vars

\* C14 witness: py's EncryptedChat could not be decrypted, its notice is
\* queued, and the next EncryptedChat has been handled and queued as a Chat.
C14_Witness ==
    /\ Handled(last, "EncryptedMessage")
    /\ Len(ui_chan) = 2
    /\ IsDecryptFailure(ui_chan[1], fmt_short("py"))
    /\ ui_chan[2].kind = "Chat"
    /\ last.emitted = <<ui_chan[2]>>
    /\ \E i \in DOMAIN message_owners : message_owners[i] = "py"
    /\ loop_state = "running"

\* C15: a Received event whose bytes do not decode makes subscribe_loop return
\* an error; once it has returned an error it handles no further item, the
\* names and the owners never change again, and nothing more is put on the
\* event queue (the UI only takes events off it).
C15_MalformedAbortsLoop ==
    [][/\ (last'.op = "subscribe_loop" /\ last'.item = Malformed) =>
            /\ loop_state = "running"
            /\ loop_state' = "err"
            /\ last'.emitted = <<>>
            /\ UNCHANGED <<names, message_owners, ui_chan>>
       /\ loop_state = "err" =>
            /\ loop_state' = "err"
            /\ last'.op # "subscribe_loop"
            /\ UNCHANGED <<names, message_owners>>
            /\ ui_chan' = ui_chan \/ (ui_chan # <<>> /\ ui_chan' = Tail(ui_chan))]_vars

\* C15 witness: after an EncryptedChat was handled and queued, bytes that do
\* not decode have just ended the loop with an error, with stream items left.
C15_Witness ==
    /\ last.op = "subscribe_loop"
    /\ last.item = Malformed
    /\ loop_state = "err"
    /\ message_owners # EmptyMap
    /\ ui_chan # <<>>
    /\ n_recv < MaxRecv

\* Body m carries text x readable without a key.
InPlaintext(m, x) == m.type = "Message" /\ m.text = x

\* C16 (as claimed): a text the local user sent is published as an
\* EncryptedChat of the local endpoint that opens to the text under the
\* topic's key, every id on the delete channel's way out is published as a
\* DeleteRequest of the local endpoint, and no published body carries a chat
\* text in plaintext.
C16_PublishedEncryptedOnly ==
    /\ last.op = "main.broadcast" =>
            /\ last.body.type = "EncryptedMessage"
            /\ last.body.from = my_id
            /\ last.body \in published
    /\ \A m \in published :
        /\ m.type \in {"AboutMe", "EncryptedMessage", "DeleteMessage"}
        /\ m.from = my_id
        /\ \A x \in Texts \cup PlainTexts : ~InPlaintext(m, x)

\* C17: decrypt_message, given the ciphertext and the nonce encrypt_message
\* produced for a text and the topic it was encrypted under, succeeds and
\* returns that text.
C17_CryptoRoundTrip ==
    (/\ last.op = "decrypt_message"
     /\ last.topic = last.enc_topic
     /\ last.nonce = last.msg.nonce)
        => (last.res.ok /\ last.res.text = last.text)

\* C17 witness: a text with a two-byte character has gone through
\* encrypt_message and decrypt_message under the same topic.
C17_Witness ==
    /\ last.op = "decrypt_message"
    /\ last.topic = last.enc_topic
    /\ last.nonce = last.msg.nonce
    /\ last.text = <<"e_acute", "a">>
    /\ last.msg.ciphertext.bytes = <<195, 169, 97>>
    /\ last.res.text = <<"e_acute", "a">>

\* C18: decrypt_message fails on a ciphertext encrypt_message produced under
\* another topic, whatever the nonce; and the receive loop, handling an
\* EncryptedChat sealed under the key of a topic other than its own, sends
\* no Chat event, and for another peer's message sends the notice of the
\* failed decryption.
C18_CrossTopicIsolation ==
    /\ (last.op = "decrypt_message" /\ last.topic # last.enc_topic)
            => ~last.res.ok
    /\ (/\ Handled(last, "EncryptedMessage")
        /\ \E t \in TopicIds \ {topic} :
                last.item.body.ciphertext.key = <<"sha256", t>>)
            => /\ \A k \in 1..Len(last.emitted) : last.emitted[k].kind # "Chat"
               /\ last.item.body.from # my_id =>
                    /\ Len(last.emitted) = 1
                    /\ IsDecryptFailure(last.emitted[1],
                            sender_name(last.item.body.from))

\* C18 witness: px's message encrypted under topic tB has reached the receive
\* loop of topic tA and the notice of the failed decryption is queued.
C18_Witness ==
    /\ Handled(last, "EncryptedMessage")
    /\ last.item.body.from = "px"
    /\ last.item.body.ciphertext.key = <<"sha256", "tB">>
    /\ Len(ui_chan) = 1
    /\ IsDecryptFailure(ui_chan[1], fmt_short("px"))

\* The symbols of lowercase base-32.
Base32LowerSet == {Base32Lower[i] : i \in 1..32}

\* C19: parsing the text a Ticket displays as gives back that Ticket, with the
\* same topic and the same endpoints in the same order; the text consists of
\* lowercase base-32 symbols only, without padding, eight symbols for every
\* five bytes rounded up; and a text with a symbol outside the alphabet or of
\* a length no encoding has gives an error, as does every text whose bytes
\* are not the serialisation of the Ticket returned.
C19_TicketRoundTrip ==
    /\ last.op = "Ticket::fmt" =>
        /\ \A k \in 1..Len(last.text) : last.text[k] \in Base32LowerSet
        /\ Len(last.text) = (8 * Len(Ticket_to_bytes(last.ticket)) + 4) \div 5
    /\ last.op = "Ticket::from_str" =>
        /\ last.input = last.text =>
                (last.res.ok /\ last.res.ticket = last.ticket)
        /\ (\E k \in 1..Len(last.input) :
                last.input[k] \notin Base32LowerSet \cup {Base32Upper[i] : i \in 1..32})
                => ~last.res.ok
        /\ (Len(last.input) % 8) \in {1, 3, 6} => ~last.res.ok
        /\ last.res.ok =>
                Ticket_fmt(last.res.ticket) = make_ascii_lowercase(last.input)

\* C19 witness: a Ticket with two bootstrap endpoints in the order py, px has
\* been displayed and parsed back.
C19_Witness ==
    /\ last.op = "Ticket::from_str"
    /\ last.ticket = [topic |-> "tB", endpoints |-> <<"py", "px">>]
    /\ last.input = last.text
    /\ last.res.ok
    /\ last.res.ticket.endpoints = <<"py", "px">>

\* C20: handling Announce{peer_id, name} leaves the Peer Directory with
\* peer_id mapped to name, whatever it held for peer_id before, and the other
\* entries as they were; it sends the System event "<name> joined the chat"
\* when peer_id is not the local endpoint and nothing when it is; and it
\* leaves the Ownership Table as it was.
C20_AnnounceUpsertsName ==
    [][Handled(last', "AboutMe") =>
        LET b == last'.item.body IN
        /\ DOMAIN names' = DOMAIN names \cup {b.from}
        /\ names'[b.from] = b.name
        /\ \A p \in DOMAIN names \ {b.from} : names'[p] = names[p]
        /\ b.from # my_id =>
                last'.emitted = <<SystemMsg(<<b.name, " joined the chat">>)>>
        /\ b.from = my_id => last'.emitted = <<>>
        /\ ui_pc # "quit" => ui_chan' = ui_chan \o last'.emitted
        /\ message_owners' = message_owners
        /\ loop_state' = "running"]_vars

\* C20 witness: px announced itself and its notice is queued, px's message
\* is owned, and the local endpoint's own Announce has just replaced its
\* pre-registered name without a notice.
C20_Witness ==
    /\ Handled(last, "AboutMe")
    /\ last.item.body = AboutMe(my_id, "Al")
    /\ last.emitted = <<>>
    /\ names[my_id] = "Al"
    /\ "px" \in DOMAIN names
    /\ ui_chan # <<>>
    /\ ui_chan[1] = SystemMsg(<<names["px"], " joined the chat">>)

\* The sender an event names: of a Chat event, or of the notice of a failed
\* decryption.
ShownSender(m) == IF m.kind = "Chat" THEN m.sender ELSE m.text[2]

\* C21: the Peer Directory entry of a peer changes only when an Announce of
\* that peer is handled, to the name it carries; the event sent for another
\* peer's EncryptedChat names the sender by the Peer Directory entry at that
\* moment, and by the short form of the peer id when there is none; and
\* handling an Announce leaves the History and the events already queued as
\* they were.
C21_SenderIsNameAtReceipt ==
    [][/\ \A p \in EndpointIds :
            (/\ p \in DOMAIN names'
             /\ (p \notin DOMAIN names \/ names'[p] # names[p]))
                => /\ Handled(last', "AboutMe")
                   /\ last'.item.body.from = p
                   /\ names'[p] = last'.item.body.name
       /\ DOMAIN names \subseteq DOMAIN names'
       /\ (Handled(last', "EncryptedMessage") /\ last'.item.body.from # my_id) =>
            LET p == last'.item.body.from IN
            /\ Len(last'.emitted) = 1
            /\ last'.emitted[1].kind \in {"Chat", "System"}
            /\ p \in DOMAIN names => ShownSender(last'.emitted[1]) = names[p]
            /\ p \notin DOMAIN names =>
                    ShownSender(last'.emitted[1]) = <<"short", p>>
       /\ Handled(last', "AboutMe") =>
            /\ messages' = messages
            /\ SubSeq(ui_chan', 1, Len(ui_chan)) = ui_chan]_vars

\* C21 witness: px's message was displayed under the short form of its id,
\* and the Announce of px handled afterwards left that entry as it was.
C21_Witness ==
    /\ Handled(last, "AboutMe")
    /\ last.item.body = AboutMe("px", "Al")
    /\ names["px"] = "Al"
    /\ messages # <<>>
    /\ messages[1].kind = "Chat"
    /\ messages[1].sender = <<"short", "px">>

\* The number of Chat entries with id i in the History h.
ChatCount(h, i) == Cardinality({k \in 1..Len(h) : IsChat(h[k], i)})

\* C22: handling another peer's EncryptedChat whose id that peer already owns
\* leaves the Peer Directory and the Ownership Table as they were and still
\* sends one event, a Chat event when the ciphertext opens to a text; every
\* Chat event applied to a History below the limit adds one Chat entry with
\* its id; and a step that applies Delete(i) leaves no Chat entry with id i.
C22_DuplicateChatRedisplayed ==
    [][/\ (/\ Handled(last', "EncryptedMessage")
           /\ last'.item.body.from # my_id
           /\ OwnedBy(last'.item.body.id, last'.item.body.from)) =>
            /\ UNCHANGED <<names, message_owners>>
            /\ Len(last'.emitted) = 1
            /\ ~DecryptFails(last'.item.body) =>
                    IsChat(last'.emitted[1], last'.item.body.id)
            /\ ui_pc # "quit" => ui_chan' = Append(ui_chan, last'.emitted[1])
       /\ (/\ last'.op = "add_message"
           /\ last'.msg.kind = "Chat"
           /\ Len(messages) < MAX_MESSAGES) =>
            /\ ChatCount(messages', last'.msg.id) =
                    ChatCount(messages, last'.msg.id) + 1
       /\ \A i \in MessageIds :
            AppliesDelete(i) => ChatCount(messages', i) = 0]_vars

\* C22 witness: px's EncryptedChat with id 1 was delivered twice; the
\* Ownership Table holds the one entry and the History two equal Chat entries.
C22_Witness ==
    /\ last.op = "add_message"
    /\ IsChat(last.msg, 1)
    /\ ChatCount(messages, 1) = 2
    /\ messages[1] = messages[2]
    /\ DOMAIN message_owners = {1}
    /\ message_owners[1] = "px"
    /\ DOMAIN names = {my_id}

\* The step handles stream item of kind ev in the receive loop.
LoopStep(ev) == last'.op = "subscribe_loop" /\ last'.item.ev = ev

\* C23: the receive loop stops running only in a step that handles the end
\* of the stream, returning Ok, or a stream error or bytes that do not decode,
\* returning an error, and never runs again; handling a decoded message keeps
\* it running, whether the decryption fails, the delete is unauthorized or
\* the event queue is closed (the event is then lost); and a substrate event
\* that is no received payload keeps it running and leaves the names, the
\* owners and the event queue as they were.
C23_LoopEndsOnlyOnStreamEndOrError ==
    [][/\ loop_state # loop_state' =>
            /\ loop_state = "running"
            /\ \/ LoopStep("End") /\ loop_state' = "ok"
               \/ LoopStep("Error") /\ loop_state' = "err"
               \/ LoopStep("Received") /\ ~last'.item.decodes /\ loop_state' = "err"
       /\ (LoopStep("End") \/ LoopStep("Error")
           \/ (LoopStep("Received") /\ ~last'.item.decodes))
            => loop_state' # "running"
       /\ (LoopStep("Received") /\ last'.item.decodes) =>
            /\ loop_state' = "running"
            /\ ui_pc = "quit" => ui_chan' = ui_chan
       /\ LoopStep("NeighborUp") =>
            /\ loop_state' = "running"
            /\ UNCHANGED <<names, message_owners, ui_chan>>]_vars

\* C23 witness: run_tui has returned, and the receive loop has just handled
\* px's EncryptedChat, lost its Chat event and goes on running.
C23_Witness ==
    /\ ui_pc = "quit"
    /\ Handled(last, "EncryptedMessage")
    /\ Len(last.emitted) = 1
    /\ last.emitted[1].kind = "Chat"
    /\ ui_chan = <<>>
    /\ loop_state = "running"

\* C24: the two flows share no mutable state. A step of the receive loop
\* leaves the History, the Sent-Id Queue and the scroll offset unchanged and
\* only appends its events to the event queue while the UI runs; a step of the UI (applying
\* an event, a key, a send, a self-delete, a scroll, an idle poll) and a step
\* of the outbound flow leave the Peer Directory and the Ownership Table
\* unchanged.
C24_FlowsShareNoState ==
    [][/\ last'.op = "subscribe_loop" =>
            /\ UNCHANGED <<input, messages, mode, my_sent_ids, scroll_offset>>
            /\ UNCHANGED <<input_chan, delete_chan>>
            /\ ui_chan' = IF ui_pc = "quit" THEN ui_chan
                          ELSE ui_chan \o last'.emitted
       /\ last'.op # "subscribe_loop" =>
            UNCHANGED <<names, message_owners, loop_state>>]_vars

\* C24 witness: the History holds two entries, one of them sent locally, and
\* is scrolled up by one; the receive loop has just handled an EncryptedChat
\* and its event waits in the queue.
C24_Witness ==
    /\ last.op = "subscribe_loop"
    /\ Handled(last, "EncryptedMessage")
    /\ last.emitted # <<>>
    /\ Len(messages) = 2
    /\ my_sent_ids # <<>>
    /\ scroll_offset = 1
    /\ ui_chan = last.emitted

\* C25: in every reachable state of the App, whatever add_message, scroll_up
\* and scroll_down calls came before, the scroll offset is at most the
\* History's length minus one, and 0 when the History is empty.
C25_ScrollOffsetInRange ==
    scroll_offset <= saturating_sub(Len(messages), 1)

\* C26: a deleted message stays deleted: once Delete(id) has been applied to
\* the History, no later state of the History holds a Chat entry with that
\* id, whatever the stream delivers afterwards. Where every envelope carries
\* id 1, each "A message was deleted." notice in the History marks a Delete(1)
\* applied, and entries are only appended behind it: no Chat entry with id 1
\* stands behind such a notice.
C26_DeletedStaysDeleted ==
    \A j \in 1..Len(messages) :
        messages[j] = SystemMsg(<<"A message was deleted.">>) =>
            \A k \in (j + 1)..Len(messages) : ~IsChat(messages[k], 1)

\* C27: events reach the History in the order the receive loop sent them. A
\* receive-loop step puts its events behind those already queued; a step that
\* applies a queued event applies the oldest one and leaves the others queued
\* in their order; no other step touches the queue. So where Chat(i) was
\* queued before Delete(i), a step that applies that Delete(i) finds the
\* Chat(i) no longer queued before it.
C27_EventsAppliedInOrder ==
    [][/\ last'.op = "subscribe_loop" /\ ui_pc # "quit" =>
            ui_chan' = ui_chan \o last'.emitted
       /\ (last'.op = "add_message" /\ last'.from = "ui_rx") =>
            /\ ui_chan # <<>>
            /\ last'.msg = Head(ui_chan)
            /\ ui_chan' = Tail(ui_chan)
            /\ messages' = add_message(messages, my_sent_ids, Head(ui_chan)).messages
       /\ ~(last'.op = "subscribe_loop"
            \/ (last'.op = "add_message" /\ last'.from = "ui_rx")) =>
            ui_chan' = ui_chan
       /\ \A i \in MessageIds : \A j, k \in 1..Len(ui_chan) :
            (/\ j < k
             /\ ui_chan[j].kind = "Chat" /\ ui_chan[j].id = i
             /\ ui_chan[k] = DeleteMsg(i)
             /\ last'.op = "add_message" /\ last'.from = "ui_rx")
            => /\ last'.msg # DeleteMsg(i)
               /\ \E n \in 1..Len(ui_chan') : ui_chan'[n] = DeleteMsg(i)]_vars

\* C27 witness: Chat(1) and Delete(1) were queued in that order; the UI has
\* applied the Chat, which is in the History, and the Delete is still queued.
C27_Witness ==
    /\ last.op = "add_message"
    /\ last.from = "ui_rx"
    /\ last.msg.kind = "Chat"
    /\ last.msg.id = 1
    /\ HasChat(1)
    /\ ui_chan = <<DeleteMsg(1)>>

WithoutId(s, i) == LET other(x) == x # i IN SelectSeq(s, other)

C30_ShownAndRecordedBeforeSent ==
    [][/\ EnterStep =>
            \E id \in MessageIds :
                /\ messages'[Len(messages')] = ChatMessage(id, <<"You">>, input)
                /\ my_sent_ids' = Append(my_sent_ids, id)
                /\ ui_pending' = <<input, id>>
                /\ ui_pc' = "send_input"
                /\ UNCHANGED <<input, input_chan, delete_chan>>
       /\ last'.op = "input_tx.send" =>
            /\ ui_pc = "send_input"
            /\ ui_pending[1] = input
            /\ input # <<>>
            /\ messages[Len(messages)] = ChatMessage(ui_pending[2], <<"You">>, input)
            /\ my_sent_ids[Len(my_sent_ids)] = ui_pending[2]
            /\ input_chan' = Append(input_chan, ui_pending)
            /\ input' = <<>>
            /\ UNCHANGED <<messages, my_sent_ids, delete_chan>>
       /\ Len(input_chan') > Len(input_chan) => last'.op = "input_tx.send"
       /\ (last'.op = "key" /\ last'.key = Key("Enter")
           /\ mode = "Insert" /\ input = <<>>) =>
            /\ UNCHANGED <<messages, my_sent_ids, input, input_chan, delete_chan,
                           ui_pending, mode, scroll_offset>>
            /\ ui_pc' = "drain"]_vars

\* C30 witness: the text "a" was sent with id 1: its Chat entry is in the
\* History, id 1 is in the Sent-Id Queue and the pair has just been handed to
\* the outbound channel.
C30_Witness ==
    /\ last.op = "input_tx.send"
    /\ last.sent = <<(<<"a">>), 1>>
    /\ input_chan = <<last.sent>>
    /\ my_sent_ids = <<1>>
    /\ messages = <<ChatMessage(1, <<"You">>, <<"a">>)>>
    /\ input = <<>>

====
